---------------------------- MODULE Spec2Model ----------------------------
(***************************************************************************)
(* A model of the 16-bit register machine of src/src/lib.rs: the struct    *)
(* Simple (64 registers of 16 bits, 65,536 bytes of ram), its operations   *)
(* load_program, step and run, and the module alu.                         *)
(*                                                                         *)
(* Representation.  regfile is a function on 0..63.  ram is the array      *)
(* [u8; 65536] kept sparsely: a function whose domain is the set of        *)
(* addresses that hold a non-zero byte; every other address holds 0.       *)
(* Addresses are usize values (64 bits in the build modelled here), so     *)
(* address.wrapping_add(1) of 0xFFFF is 0x10000 and indexing ram with it   *)
(* panics (index out of bounds); `ret` records how the last call of step   *)
(* ended: "true" / "false" (its return value), "todo" (it panicked in      *)
(* todo!()), "oob" (it panicked on an index out of bounds), or "none"      *)
(* before the first call.  The text written to stdout / stderr is not      *)
(* part of the machine's state and is left out.                            *)
(***************************************************************************)
EXTENDS Integers, Sequences, FiniteSets

VARIABLES regfile, ram, ret, program, loads

vars == <<regfile, ram, ret, program, loads>>

----------------------------------------------------------------------------
(* Constants of the program. *)

STACK_POINTER == 15
INSTRUCTION_POINTER == 16
FLAG_REGISTER == 17
REGISTER_COUNT == 64
RAM_SIZE == 65536
U16 == 65536
PORT == 65281

ZF == 1
CF == 2
OF == 4
SF == 8
EF == 64

----------------------------------------------------------------------------
(* ram: [u8; 65536], sparse. *)

ram_at(rm, a) == IF a \in DOMAIN rm THEN rm[a] ELSE 0

ram_put(rm, a, v) ==
    IF v = 0
    THEN [x \in (DOMAIN rm) \ {a} |-> rm[x]]
    ELSE [x \in (DOMAIN rm) \cup {a} |-> IF x = a THEN v ELSE rm[x]]

ram_zero == [x \in {} |-> 0]

wrapping_add(x, y) == (x + y) % U16

wrapping_sub(x, y) == (x - y + U16) % U16

not16(x) == (U16 - 1) - x

RECURSIVE bit_and(_, _, _)
bit_and(a, b, n) ==
    IF n = 0 THEN 0
    ELSE ((a % 2) * (b % 2)) + 2 * bit_and(a \div 2, b \div 2, n - 1)

RECURSIVE bit_or(_, _, _)
bit_or(a, b, n) ==
    IF n = 0 THEN 0
    ELSE (IF (a % 2) + (b % 2) > 0 THEN 1 ELSE 0)
         + 2 * bit_or(a \div 2, b \div 2, n - 1)

RECURSIVE bit_xor(_, _, _)
bit_xor(a, b, n) ==
    IF n = 0 THEN 0
    ELSE (((a % 2) + (b % 2)) % 2) + 2 * bit_xor(a \div 2, b \div 2, n - 1)

----------------------------------------------------------------------------
(* mod alu *)

\* Flags whose overflow bit needs the carry instead of excluding it.
alu_flags_overflow_on_carry(c, cf) ==
    LET zf == (c = 0)
        sf == (c \div 32768) % 2 = 1
        of == cf /\ sf
    IN  (IF zf THEN 1 ELSE 0) + (IF cf THEN 2 ELSE 0)
        + (IF of THEN 4 ELSE 0) + (IF sf THEN 8 ELSE 0)

\* Flags whose sign bit is set when bit 15 of the result is clear.
alu_flags_sign_inverted(c, cf) ==
    LET zf == (c = 0)
        sf == (c \div 32768) % 2 = 0
        of == (~cf) /\ sf
    IN  (IF zf THEN 1 ELSE 0) + (IF cf THEN 2 ELSE 0)
        + (IF of THEN 4 ELSE 0) + (IF sf THEN 8 ELSE 0)

alu_flags(c, cf) ==
    LET zf == (c = 0)
        sf == (c \div 32768) % 2 = 1
        of == (~cf) /\ sf
    IN  (IF zf THEN 1 ELSE 0) + (IF cf THEN 2 ELSE 0)
        + (IF of THEN 4 ELSE 0) + (IF sf THEN 8 ELSE 0)

\* An addition that reports a carry only above 2^16.
overflowing_add_late(a, b) == <<(a + b) % U16, a + b > U16>>

overflowing_add(a, b) == <<(a + b) % U16, a + b >= U16>>

overflowing_sub(a, b) == <<(a - b + U16) % U16, a < b>>

alu_add(a, b, f) ==
    LET r == overflowing_add(a, b) IN <<r[1], alu_flags(r[1], r[2])>>

alu_sub(a, b, f) ==
    LET r == overflowing_sub(a, b) IN <<r[1], alu_flags(r[1], r[2])>>

alu_or(a, b, f) ==
    LET c == bit_or(a, b, 16) IN <<c, alu_flags(c, FALSE)>>

alu_nor(a, b, f) ==
    LET c == not16(bit_or(a, b, 16)) IN <<c, alu_flags(c, FALSE)>>

alu_and(a, b, f) ==
    LET c == bit_and(a, b, 16) IN <<c, alu_flags(c, FALSE)>>

alu_nand(a, b, f) ==
    LET c == not16(bit_and(a, b, 16)) IN <<c, alu_flags(c, FALSE)>>

alu_xor(a, b, f) ==
    LET c == bit_xor(a, b, 16) IN <<c, alu_flags(c, FALSE)>>

alu_xnor(a, b, f) ==
    LET c == not16(bit_xor(a, b, 16)) IN <<c, alu_flags(c, FALSE)>>

alu_cf(f) == IF (f \div CF) % 2 = 1 THEN 1 ELSE 0

\* An add-with-carry that also reports the carry out of a + carry-in.
alu_adc_captures_carry(a, b, f) ==
    LET a1 == wrapping_add(a, alu_cf(f))
        r == overflowing_add(a1, b)
        c == r[2] \/ (a + alu_cf(f) >= U16)
    IN  <<r[1], alu_flags(r[1], c)>>

alu_adc(a, b, f) ==
    LET a1 == wrapping_add(a, alu_cf(f))
        r == overflowing_add(a1, b)
    IN  <<r[1], alu_flags(r[1], r[2])>>

alu_sbb(a, b, f) ==
    LET a1 == wrapping_sub(a, alu_cf(f))
        r == overflowing_sub(a1, b)
    IN  <<r[1], alu_flags(r[1], r[2])>>

\* A compare that returns the difference, as sub does.
alu_cmp_returns_difference(a, b, f) ==
    LET r == overflowing_sub(a, b) IN <<r[1], alu_flags(r[1], r[2])>>

alu_cmp(a, b, f) ==
    LET r == overflowing_sub(a, b) IN <<a, alu_flags(r[1], r[2])>>

\* dispatch_op: the number of the operation found, 0 for None.
dispatch_op(op) == IF op \in 1..11 THEN op ELSE 0

\* The soft failure without its flag.
alu_error_no_flag == <<0, 0>>

\* What alu returns when dispatch_op finds no operation.
alu_error == <<0, EF>>

alu(op, a, b, f) ==
    LET d == dispatch_op(op) IN
    CASE d = 1 -> alu_add(a, b, f)
      [] d = 2 -> alu_sub(a, b, f)
      [] d = 3 -> alu_or(a, b, f)
      [] d = 4 -> alu_nor(a, b, f)
      [] d = 5 -> alu_and(a, b, f)
      [] d = 6 -> alu_nand(a, b, f)
      [] d = 7 -> alu_xor(a, b, f)
      [] d = 8 -> alu_xnor(a, b, f)
      [] d = 9 -> alu_adc(a, b, f)
      [] d = 10 -> alu_sbb(a, b, f)
      [] d = 11 -> alu_cmp(a, b, f)
      [] OTHER -> alu_error

----------------------------------------------------------------------------
(* impl Simple: the helpers of step. *)

ip(rf) == rf[INSTRUCTION_POINTER]

advance_ip(rf, amount) ==
    [rf EXCEPT ![INSTRUCTION_POINTER] = wrapping_add(@, amount % U16)]

flags(rf) == rf[FLAG_REGISTER]

zf(rf) == (flags(rf) \div ZF) % 2 = 1

cf(rf) == (flags(rf) \div CF) % 2 = 1

of(rf) == (flags(rf) \div OF) % 2 = 1

sf(rf) == (flags(rf) \div SF) % 2 = 1

ef(rf) == (flags(rf) \div EF) % 2 = 1

\* read_16 indexes ram[address] and ram[address + 1]: it panics when either
\* index is outside the array.
read_16_panics(address) == address + 1 > RAM_SIZE - 1

read_16(rm, address) == ram_at(rm, address) * 256 + ram_at(rm, address + 1)

\* write_16 without the port: a write at 0xFF01 is stored like any other.
write_16_stores_port(rm, address, value) ==
    IF address > RAM_SIZE - 1
    THEN [ram |-> rm, ok |-> FALSE]
    ELSE IF address + 1 > RAM_SIZE - 1
    THEN [ram |-> ram_put(rm, address, value \div 256), ok |-> FALSE]
    ELSE [ram |-> ram_put(ram_put(rm, address, value \div 256),
                          address + 1, value % 256),
          ok |-> TRUE]

\* write_16: [ram, ok]; ok is FALSE when the second store panics, after the
\* first one was made.
write_16(rm, address, value) ==
    IF address = PORT
    THEN [ram |-> rm, ok |-> TRUE]
    ELSE IF address > RAM_SIZE - 1
    THEN [ram |-> rm, ok |-> FALSE]
    ELSE IF address + 1 > RAM_SIZE - 1
    THEN [ram |-> ram_put(rm, address, value \div 256), ok |-> FALSE]
    ELSE [ram |-> ram_put(ram_put(rm, address, value \div 256),
                          address + 1, value % 256),
          ok |-> TRUE]

\* push: [regfile, ram, ok].
push(rf, rm, value) ==
    LET rf1 == [rf EXCEPT ![STACK_POINTER] = wrapping_sub(@, 2)]
        w == write_16(rm, rf1[STACK_POINTER], value)
    IN  [regfile |-> rf1, ram |-> w.ram, ok |-> w.ok]

\* pop with the increment before the read.
pop_increments_first(rf, rm) ==
    LET rf1 == [rf EXCEPT ![STACK_POINTER] = wrapping_add(@, 2)]
    IN  IF read_16_panics(rf1[STACK_POINTER])
        THEN [regfile |-> rf1, value |-> 0, ok |-> FALSE]
        ELSE [regfile |-> rf1,
              value |-> read_16(rm, rf1[STACK_POINTER]),
              ok |-> TRUE]

\* pop: [regfile, value, ok]; the read comes first, and a panicking read
\* leaves the stack pointer as it was.
pop(rf, rm) ==
    IF read_16_panics(rf[STACK_POINTER])
    THEN [regfile |-> rf, value |-> 0, ok |-> FALSE]
    ELSE [regfile |-> [rf EXCEPT ![STACK_POINTER] = wrapping_add(@, 2)],
          value |-> read_16(rm, rf[STACK_POINTER]),
          ok |-> TRUE]

\* should_jump with less-or-equal as zero or sign different from overflow.
should_jump_signed_le(rf, cond) ==
    CASE cond = 1 -> (~zf(rf)) /\ (~cf(rf))
      [] cond = 2 -> ~cf(rf)
      [] cond = 3 -> cf(rf)
      [] cond = 4 -> cf(rf) \/ zf(rf)
      [] cond = 5 -> (~zf(rf)) /\ (sf(rf) = of(rf))
      [] cond = 6 -> sf(rf) = of(rf)
      [] cond = 7 -> sf(rf) # of(rf)
      [] cond = 8 -> zf(rf) \/ (sf(rf) # of(rf))
      [] cond = 9 -> zf(rf)
      [] cond = 10 -> ~zf(rf)
      [] cond = 11 -> of(rf)
      [] cond = 12 -> ~of(rf)
      [] cond = 13 -> TRUE
      [] OTHER -> FALSE

should_jump(rf, cond) ==
    CASE cond = 1 -> (~zf(rf)) /\ (~cf(rf))
      [] cond = 2 -> ~cf(rf)
      [] cond = 3 -> cf(rf)
      [] cond = 4 -> cf(rf) \/ zf(rf)
      [] cond = 5 -> (~zf(rf)) /\ (sf(rf) = of(rf))
      [] cond = 6 -> sf(rf) = of(rf)
      [] cond = 7 -> sf(rf) # of(rf)
      [] cond = 8 -> (~zf(rf)) \/ (sf(rf) # zf(rf))
      [] cond = 9 -> zf(rf)
      [] cond = 10 -> ~zf(rf)
      [] cond = 11 -> of(rf)
      [] cond = 12 -> ~of(rf)
      [] cond = 13 -> TRUE
      [] OTHER -> FALSE

----------------------------------------------------------------------------
(* Simple::step.  Every arm returns [regfile, ram, ret]: the machine after   *)
(* the call and how the call ended.  A panic keeps what was written before   *)
(* it.                                                                       *)

Result(rf, rm, r) == [regfile |-> rf, ram |-> rm, ret |-> r]

\* 0b0000 with instruction >> 8 == 0: 1op
step_1op(rf, rm, instruction) ==
    LET rd == instruction % 16
        sel == instruction \div 16
    IN  CASE sel = 1 ->
               Result(advance_ip([rf EXCEPT ![rd] = not16(@)], 2), rm, "true")
          [] sel = 2 ->
               Result(advance_ip([rf EXCEPT ![rd] = not16(wrapping_add(@, 1))], 2),
                      rm, "true")
          [] sel = 3 ->
               LET p == push(rf, rm, rf[rd]) IN
               IF p.ok
               THEN Result(advance_ip(p.regfile, 2), p.ram, "true")
               ELSE Result(p.regfile, p.ram, "oob")
          [] sel = 4 ->
               LET p == pop(rf, rm) IN
               IF p.ok
               THEN Result(advance_ip([p.regfile EXCEPT ![rd] = p.value], 2),
                           rm, "true")
               ELSE Result(rf, rm, "oob")
          [] sel = 5 ->
               Result(advance_ip([rf EXCEPT ![rd] = wrapping_add(@, 1)], 2),
                      rm, "true")
          [] sel = 6 ->
               Result(advance_ip([rf EXCEPT ![rd] = wrapping_sub(@, 1)], 2),
                      rm, "true")
          [] OTHER -> Result(rf, rm, "todo")

\* 2op with the two operands handed to the ALU in the opposite order.
step_2op_swapped(rf, rm, instruction) ==
    LET op == (instruction \div 256) % 16
        rd == (instruction \div 16) % 16
        rs == instruction % 16
        va == rf[rd]
        vb == rf[rs]
        r == alu(op, vb, va, flags(rf))
        rf1 == [rf EXCEPT ![FLAG_REGISTER] = r[2]]
        rf2 == [rf1 EXCEPT ![rd] = r[1]]
    IN  Result(advance_ip(rf2, 2), rm, "true")

\* 0b0000 otherwise: 2op
step_2op(rf, rm, instruction) ==
    LET op == (instruction \div 256) % 16
        rd == (instruction \div 16) % 16
        rs == instruction % 16
        va == rf[rd]
        vb == rf[rs]
        r == alu(op, va, vb, flags(rf))
        rf1 == [rf EXCEPT ![FLAG_REGISTER] = r[2]]
        rf2 == [rf1 EXCEPT ![rd] = r[1]]
    IN  Result(advance_ip(rf2, 2), rm, "true")

\* j? abs with the instruction pointer advanced before the addressing mode
\* is looked at.
step_jabs_advances_first(rf, rm, instruction) ==
    LET cond == (instruction \div 256) % 16
        rd == (instruction \div 16) % 16
        typ == instruction % 16
        has_immediate == (typ = 2)
        rf1 == advance_ip(rf, 2)
        src == IF typ = 1 THEN rf[rd] ELSE ip(rf) + 2
        target == IF typ = 0 THEN rf[rd] ELSE read_16(rm, src)
        rf2 == IF has_immediate THEN advance_ip(rf1, 2) ELSE rf1
        rf3 == IF should_jump(rf2, cond)
               THEN [rf2 EXCEPT ![INSTRUCTION_POINTER] = target]
               ELSE rf2
    IN  IF typ \notin {0, 1, 2} THEN Result(rf1, rm, "todo")
        ELSE IF typ # 0 /\ read_16_panics(src) THEN Result(rf1, rm, "oob")
        ELSE Result(rf3, rm, "true")

\* 0b0001: j? abs
step_jabs(rf, rm, instruction) ==
    LET cond == (instruction \div 256) % 16
        rd == (instruction \div 16) % 16
        typ == instruction % 16
        has_immediate == (typ = 2)
        src == IF typ = 1 THEN rf[rd] ELSE ip(rf) + 2
        target == IF typ = 0 THEN rf[rd] ELSE read_16(rm, src)
        rf1 == advance_ip(rf, 2)
        rf2 == IF has_immediate THEN advance_ip(rf1, 2) ELSE rf1
        rf3 == IF should_jump(rf2, cond)
               THEN [rf2 EXCEPT ![INSTRUCTION_POINTER] = target]
               ELSE rf2
    IN  IF typ \notin {0, 1, 2} THEN Result(rf, rm, "todo")
        ELSE IF typ # 0 /\ read_16_panics(src) THEN Result(rf, rm, "oob")
        ELSE Result(rf3, rm, "true")

\* 0b0010: 2op immediate
step_2op_imm(rf, rm, instruction) ==
    LET op == (instruction \div 256) % 16
        rd == (instruction \div 16) % 16
        n == instruction % 16
        va == rf[rd]
        r == alu(op, va, n, flags(rf))
        rf1 == [rf EXCEPT ![FLAG_REGISTER] = r[2]]
        rf2 == [rf1 EXCEPT ![rd] = r[1]]
    IN  Result(advance_ip(rf2, 2), rm, "true")

\* j? relative with the offset byte taken as unsigned.
step_jrel_unsigned(rf, rm, instruction) ==
    LET cond == (instruction \div 256) % 16
        target == instruction % 256
        rf1 == advance_ip(rf, 2)
        rf2 == IF should_jump(rf1, cond) THEN advance_ip(rf1, target) ELSE rf1
    IN  Result(rf2, rm, "true")

\* 0b0011: j? relative.  The offset byte goes through i8, i16 and usize and
\* advance_ip keeps its low 16 bits: 0x80..0xFF become 0xFF80..0xFFFF.
step_jrel(rf, rm, instruction) ==
    LET cond == (instruction \div 256) % 16
        byte == instruction % 256
        target == IF byte >= 128 THEN byte + (U16 - 256) ELSE byte
        rf1 == advance_ip(rf, 2)
        rf2 == IF should_jump(rf1, cond) THEN advance_ip(rf1, target) ELSE rf1
    IN  Result(rf2, rm, "true")

\* 0b0100: mov rN, [rS + rO]
step_load(rf, rm, instruction) ==
    LET rd == (instruction \div 256) % 16
        rs == (instruction \div 16) % 16
        ro == instruction % 16
        address == wrapping_add(rf[rs], rf[ro])
    IN  IF read_16_panics(address) THEN Result(rf, rm, "oob")
        ELSE Result(advance_ip([rf EXCEPT ![rd] = read_16(rm, address)], 2),
                    rm, "true")

\* 0b0101: mov [rN + rO], rS
step_store(rf, rm, instruction) ==
    LET rd == (instruction \div 256) % 16
        rs == (instruction \div 16) % 16
        ro == instruction % 16
        address == wrapping_add(rf[rd], rf[ro])
        w == write_16(rm, address, rf[rs])
    IN  IF w.ok THEN Result(advance_ip(rf, 2), w.ram, "true")
        ELSE Result(rf, w.ram, "oob")

\* mov rN, i8 that also clears the flags register.
step_mov_i8_clears_flags(rf, rm, instruction) ==
    LET rd == (instruction \div 256) % 16
        n == instruction % 256
    IN  Result(advance_ip([rf EXCEPT ![rd] = n, ![FLAG_REGISTER] = 0], 2),
               rm, "true")

\* 0b1000: mov rN, i8
step_mov_i8(rf, rm, instruction) ==
    LET rd == (instruction \div 256) % 16
        n == instruction % 256
    IN  Result(advance_ip([rf EXCEPT ![rd] = n], 2), rm, "true")

\* 0b1001: mov rN, i16
step_mov_i16(rf, rm, instruction) ==
    LET rd == (instruction \div 256) % 16
    IN  IF read_16_panics(ip(rf) + 2) THEN Result(rf, rm, "oob")
        ELSE Result(advance_ip([rf EXCEPT ![rd] = read_16(rm, ip(rf) + 2)], 4),
                    rm, "true")

\* 0b1011: mov rNpN, rNpN
step_mov_ext(rf, rm, instruction) ==
    LET rd == (instruction \div 256) % 16
        rs == (instruction \div 16) % 16
        pd == (instruction \div 4) % 4
        ps == instruction % 4
    IN  Result(advance_ip([rf EXCEPT ![rd + pd * 16] = rf[rs + ps * 16]], 2),
               rm, "true")

step(rf, rm) ==
    IF read_16_panics(ip(rf)) THEN Result(rf, rm, "oob")
    ELSE LET instruction == read_16(rm, ip(rf))
             top == instruction \div 4096
         IN  IF instruction = 0 THEN Result(rf, rm, "false")
             ELSE CASE top = 0 /\ instruction \div 256 = 0 ->
                         step_1op(rf, rm, instruction)
                    [] top = 0 /\ instruction \div 256 # 0 ->
                         step_2op(rf, rm, instruction)
                    [] top = 1 -> step_jabs(rf, rm, instruction)
                    [] top = 2 -> step_2op_imm(rf, rm, instruction)
                    [] top = 3 -> step_jrel(rf, rm, instruction)
                    [] top = 4 -> step_load(rf, rm, instruction)
                    [] top = 5 -> step_store(rf, rm, instruction)
                    [] top = 8 -> step_mov_i8(rf, rm, instruction)
                    [] top = 9 -> step_mov_i16(rf, rm, instruction)
                    [] top = 11 -> step_mov_ext(rf, rm, instruction)
                    [] OTHER -> Result(rf, rm, "todo")

----------------------------------------------------------------------------
(* The state machine: Simple::new, load_program, step, run. *)

\* Simple::new
Init ==
    /\ regfile = [r \in 0..(REGISTER_COUNT - 1) |-> 0]
    /\ ram = ram_zero
    /\ ret = "none"
    /\ program = <<>>
    /\ loads = 0

\* ram after `self.ram[index] = *byte` for the bytes of p in order; the
\* index check of ram stops the loop at the first byte that does not fit,
\* with the bytes before it stored.
load_bytes(rm, p) ==
    LET n == IF Len(p) > RAM_SIZE THEN RAM_SIZE ELSE Len(p) IN
    [x \in ((DOMAIN rm) \ (0..(n - 1))) \cup {i - 1 : i \in {j \in 1..n : p[j] # 0}}
       |-> IF x < n THEN p[x + 1] ELSE rm[x]]

\* load_program, on the machine as it is: the bytes go over whatever ram
\* holds, the registers stay.  A program longer than ram panics.  ret is the
\* outcome of the last call of step since the last load, and loads counts
\* the loads; after a panic the machine is not used again.
load_program(p) ==
    /\ ret \in {"none", "true", "false"}
    /\ ram' = load_bytes(ram, p)
    /\ ret' = IF Len(p) > RAM_SIZE THEN "oob" ELSE "none"
    /\ program' = p
    /\ loads' = loads + 1
    /\ UNCHANGED regfile

\* One call of step; after a panic the machine is not stepped again.
Step ==
    /\ ret \in {"none", "true", "false"}
    /\ LET r == step(regfile, ram)
       IN  /\ regfile' = r.regfile
           /\ ram' = r.ram
           /\ ret' = r.ret
    /\ UNCHANGED <<program, loads>>

\* One turn of run's loop, `while self.step() {}`: it goes on for as long as
\* step returned true.
run ==
    /\ ret \in {"none", "true"}
    /\ Step

----------------------------------------------------------------------------
(* Instruction encodings (the fields step decodes) and the programs run. *)

W(w) == <<w \div 256, w % 256>>

enc_1op(sel, rd) == W(sel * 16 + rd)

enc_2op(op, rd, rs) == W(op * 256 + rd * 16 + rs)

enc_jabs(cond, rd, typ) == W(4096 + cond * 256 + rd * 16 + typ)

enc_2op_imm(op, rd, n) == W(2 * 4096 + op * 256 + rd * 16 + n)

enc_jrel(cond, byte) == W(3 * 4096 + cond * 256 + byte)

enc_load(rd, rs, ro) == W(4 * 4096 + rd * 256 + rs * 16 + ro)

enc_store(rd, rs, ro) == W(5 * 4096 + rd * 256 + rs * 16 + ro)

enc_mov_i8(rd, n) == W(8 * 4096 + rd * 256 + n)

enc_mov_i16(rd, n) == W(9 * 4096 + rd * 256) \o W(n)

enc_mov_ext(rd, pd, rs, ps) == W(11 * 4096 + rd * 256 + rs * 16 + pd * 4 + ps)

\* The programs of the tests.
add_program == <<129, 10, 130, 11, 1, 33>>

jmp_program == <<129, 1, 61, 2, 130, 2>>

fib_program ==
    <<43, 16, 57, 18, 130, 0, 131, 1,
      34, 17, 57, 12, 1, 35, 34, 17,
      57, 10, 1, 50, 61, 242, 0, 0,
      177, 32, 0, 0, 177, 48, 0, 0>>

inc_program == <<0, 81, 0, 81, 0, 81>>

stack_program ==
    <<129, 255, 0, 49, 0, 49, 0, 49,
      0, 66, 0, 67, 0, 68, 0, 69>>

TestPrograms == {add_program, jmp_program, fib_program, inc_program, stack_program}

\* Bounds of the inputs: 16-bit values within Spread of 0, 0x8000 and 0xFFFF,
\* addresses also within Spread of the port, and up to MaxPush pushes.
Spread == 1
MaxPush == 2

Near(c) == {v \in (c - Spread)..(c + Spread) : v >= 0 /\ v < U16}

Words == Near(0) \cup Near(32768) \cup Near(U16 - 1)

Addrs == Words \cup Near(PORT) \cup {4096}

\* r1 <- A; r2 <- V; [r1 + r0] <- r2; r3 <- [r1 + r0]
StoreLoad(A, V) ==
    enc_mov_i16(1, A) \o enc_mov_i16(2, V) \o enc_store(1, 2, 0) \o enc_load(3, 1, 0)

StoreLoadPrograms == {StoreLoad(A, V) : A \in Addrs, V \in Words}

RECURSIVE Concat(_)
Concat(ss) == IF ss = <<>> THEN <<>> ELSE Head(ss) \o Concat(Tail(ss))

\* r15 <- S; r1 <- V; r2 <- V + 1; push pu[1] .. push pu[n]; pop po[1] .. pop po[n]
PushPop(S, V, pu, po) ==
    enc_mov_i16(STACK_POINTER, S) \o enc_mov_i16(1, V)
      \o enc_mov_i16(2, wrapping_add(V, 1))
      \o Concat([i \in 1..Len(pu) |-> enc_1op(3, pu[i])])
      \o Concat([i \in 1..Len(po) |-> enc_1op(4, po[i])])

PushRegs == {1, 2, STACK_POINTER}
PopRegs == {3, STACK_POINTER}
StackPointers == Near(0) \cup Near(PORT + 2) \cup {32768}
StackValues == {43981}

PushPopPrograms ==
    UNION {{PushPop(S, V, pu, po) :
              S \in StackPointers, V \in StackValues,
              pu \in [1..n -> PushRegs], po \in [1..n -> PopRegs]}
           : n \in 1..MaxPush}

\* jmp T (the always-taken absolute jump with an immediate target)
JumpTo(T) == enc_jabs(13, 0, 2) \o W(T)

JumpPrograms == {JumpTo(T) : T \in Addrs}

\* A program one byte longer than ram: zeros, then 7 in the last byte that
\* fits and in the one that does not.
TooLong == [i \in 1..(RAM_SIZE + 1) |-> IF i >= RAM_SIZE THEN 7 ELSE 0]

Programs ==
    TestPrograms \cup StoreLoadPrograms \cup PushPopPrograms \cup JumpPrograms
      \cup {TooLong}

\* The machine is loaded at most MaxLoads times: first, new or stepped while
\* empty, with a program of the family, then again, in whatever state it is,
\* with a program of Reloads.
MaxLoads == 2

Reloads == {<<0, 81, 0, 0>>}

Reload ==
    /\ loads \in 1..(MaxLoads - 1)
    /\ \E p \in Reloads : load_program(p)

Next ==
    \/ loads = 0 /\ \E p \in Programs : load_program(p)
    \/ Reload
    \/ Step

Spec == Init /\ [][Next]_vars

----------------------------------------------------------------------------
(* The machine on ALU programs: every operation code, in the register and   *)
(* the immediate form, on operands from Words and with the flags register   *)
(* preset through the extended move.                                        *)

FlagSample == {0, CF, ZF + CF + OF + SF + EF}
ImmSample == {0, 1, 15}

\* r1 <- a; r2 <- b; r3 <- f; r17 (flags) <- r3; op rd, rs; jle +2
AluRegProgram(op, a, b, f, rd, rs) ==
    enc_mov_i16(1, a) \o enc_mov_i16(2, b) \o enc_mov_i8(3, f)
      \o enc_mov_ext(1, 1, 3, 0) \o enc_2op(op, rd, rs) \o enc_jrel(8, 2)

\* r1 <- a; r2 <- a + 1; r3 <- f; r17 (flags) <- r3; op r1, n; jle +2
AluImmProgram(op, a, n, f) ==
    enc_mov_i16(1, a) \o enc_mov_i16(2, wrapping_add(a, 1)) \o enc_mov_i8(3, f)
      \o enc_mov_ext(1, 1, 3, 0) \o enc_2op_imm(op, 1, n) \o enc_jrel(8, 2)

AluPrograms ==
    {add_program}
    \cup {AluRegProgram(op, a, b, f, 1, 2) :
        op \in 1..15, a \in Words, b \in Words, f \in FlagSample}
    \cup {AluRegProgram(op, a, a, f, 1, 1) :
        op \in 1..15, a \in Words, f \in FlagSample}
    \cup {AluImmProgram(op, a, n, f) :
        op \in 0..15, a \in Words, n \in ImmSample, f \in FlagSample}

AluNext ==
    \/ loads = 0 /\ \E p \in AluPrograms : load_program(p)
    \/ Reload
    \/ Step

AluSpec == Init /\ [][AluNext]_vars

----------------------------------------------------------------------------
(* The machine on single instruction words of every class, run after a      *)
(* preamble that makes the registers and the flags non-zero.                *)

RegSample == {0, 1, 15}
CondSample == {0, 1, 9, 13}

DecodeWords ==
    {b * 16 + c : b \in 0..15, c \in RegSample}
    \cup {4096 + a * 256 + b * 16 + c : a \in CondSample, b \in RegSample, c \in 0..15}
    \cup {t * 4096 + a * 256 + b * 16 + c :
            t \in {0, 2}, a \in 0..15, b \in {0, 1}, c \in RegSample}
    \cup {t * 4096 + a * 256 + b * 16 + c :
            t \in 3..15, a \in RegSample, b \in RegSample, c \in RegSample}

\* r0 <- 0x40; r1 <- 0x2000; r15 <- 0x3000; r3 <- f; r17 (flags) <- r3; w
DecodeProgram(w, f) ==
    enc_mov_i8(0, 64) \o enc_mov_i16(1, 8192) \o enc_mov_i16(STACK_POINTER, 12288)
      \o enc_mov_i8(3, f) \o enc_mov_ext(1, 1, 3, 0) \o W(w)

DecodePrograms == {DecodeProgram(w, f) : w \in DecodeWords, f \in {0, ZF + CF + OF + SF}}

DecodeNext ==
    \/ loads = 0 /\ \E p \in DecodePrograms : load_program(p)
    \/ Reload
    \/ Step

DecodeSpec == Init /\ [][DecodeNext]_vars

----------------------------------------------------------------------------
(* run() on the Fibonacci program of the tests, with r1 preset as the test  *)
(* presets it (s.regfile[1] = 11) to a value in 0..MaxFib.                   *)

MaxFib == 12

FibInit ==
    /\ \E n \in 0..MaxFib :
          regfile = [r \in 0..(REGISTER_COUNT - 1) |-> IF r = 1 THEN n ELSE 0]
    /\ ram = load_bytes(ram_zero, fib_program)
    /\ ret = "none"
    /\ program = fib_program
    /\ loads = 1

FibSpec == FibInit /\ [][run]_vars /\ WF_vars(run)

----------------------------------------------------------------------------
(* The machine on jump programs: one relative or absolute jump of every     *)
(* condition code, run with the flags register preset through the extended  *)
(* move, next to the jump program of the tests.                             *)

JumpFlags == (0..15) \cup {EF, ZF + CF + OF + SF + EF}
JumpBytes == {0, 2, 127, 128, 250, 255}
JumpTargets == {0, 32768, 65535}
JumpPointers == {0, 10, 65534, 65535}

\* r3 <- f; r17 (flags) <- r3; jump-relative cond, byte
JrelProgram(cond, byte, f) ==
    enc_mov_i8(3, f) \o enc_mov_ext(1, 1, 3, 0) \o enc_jrel(cond, byte)

\* r3 <- f; r17 (flags) <- r3; r1 <- x; jump-absolute cond, r1, typ; imm
JabsProgram(cond, typ, x, imm, f) ==
    enc_mov_i8(3, f) \o enc_mov_ext(1, 1, 3, 0) \o enc_mov_i16(1, x)
      \o enc_jabs(cond, 1, typ) \o W(imm)

JumpFamily ==
    {jmp_program}
    \cup {JrelProgram(cond, byte, f) :
            cond \in 0..15, byte \in JumpBytes, f \in JumpFlags}
    \cup {JabsProgram(cond, 0, x, 0, f) :
            cond \in 0..15, x \in JumpTargets, f \in JumpFlags}
    \cup {JabsProgram(cond, 1, x, 4660, f) :
            cond \in 0..15, x \in JumpPointers, f \in JumpFlags}
    \cup {JabsProgram(cond, 2, 0, imm, f) :
            cond \in 0..15, imm \in JumpTargets, f \in JumpFlags}

JumpNext ==
    \/ loads = 0 /\ \E p \in JumpFamily : load_program(p)
    \/ Reload
    \/ Step

JumpSpec == Init /\ [][JumpNext]_vars

----------------------------------------------------------------------------
(* Vocabulary of the properties.  A step of the model is a call of step()  *)
(* exactly when it leaves ret different from "none".                        *)

StepCalled == ret \in {"none", "true", "false"} /\ ret' # "none" /\ loads' = loads

\* The call fetched an instruction word (the fetch itself did not fail).
Fetches == StepCalled /\ ~read_16_panics(ip(regfile))

Word == read_16(ram, ip(regfile))

Nibble(w, k) == (w \div (16 ^ k)) % 16

\* The 16-bit big-endian word at address a of a memory that wraps modulo
\* 65,536, as the specification describes memory.
word_at(rm, a) == ram_at(rm, a % U16) * 256 + ram_at(rm, (a + 1) % U16)

\* The instruction words the opcode table leaves without behaviour.
Unsupported(w) ==
    \/ Nibble(w, 3) \in {6, 7, 10, 12, 13, 14, 15}
    \/ w \div 256 = 0 /\ Nibble(w, 1) \notin 1..6
    \/ Nibble(w, 3) = 1 /\ Nibble(w, 0) \notin 0..2

IsStore == Fetches /\ Nibble(Word, 3) = 5
StoreAddr == wrapping_add(regfile[Nibble(Word, 2)], regfile[Nibble(Word, 0)])
StoreVal == regfile[Nibble(Word, 1)]

IsPush == Fetches /\ Word \div 16 = 3
PushAddr == wrapping_sub(regfile[STACK_POINTER], 2)
PushVal == regfile[Nibble(Word, 0)]

IsLoad == Fetches /\ Nibble(Word, 3) = 4

IsPop == Fetches /\ Word \div 16 = 4

----------------------------------------------------------------------------
(* C1.  step() returns false exactly when the word at the instruction       *)
(* pointer is zero, and then nothing changes (so every later step() returns *)
(* false too); for every other word whose instruction the opcode table      *)
(* defines, step() executes it and returns true.  The word at the           *)
(* instruction pointer is the one the wrapping memory of the specification  *)
(* holds there.                                                             *)
C1_HaltOnZeroWord ==
    [][StepCalled =>
         LET w == word_at(ram, ip(regfile))
         IN  /\ (ret' = "false") <=> (w = 0)
             /\ (w = 0) => (regfile' = regfile /\ ram' = ram)
             /\ (w # 0 /\ ~Unsupported(w)) => (ret' = "true")]_vars

(* C2.  A 16-bit write of V at any address A other than 0xFF01, by an       *)
(* indexed store or a PUSH, completes, and a 16-bit read at A then returns  *)
(* V.                                                                       *)
C2_WriteThenRead ==
    [][/\ (IsStore /\ StoreAddr # PORT) =>
            /\ ret' = "true"
            /\ ~read_16_panics(StoreAddr)
            /\ read_16(ram', StoreAddr) = StoreVal
       /\ (IsPush /\ PushAddr # PORT) =>
            /\ ret' = "true"
            /\ ~read_16_panics(PushAddr)
            /\ read_16(ram', PushAddr) = PushVal]_vars

(* C3.  A 16-bit write at 0xFF01, by an indexed store or by a PUSH whose    *)
(* decremented stack pointer is 0xFF01, changes no byte of memory, whatever *)
(* the value written.                                                       *)
C3_PortWriteKeepsMemory ==
    [][((IsStore /\ StoreAddr = PORT) \/ (IsPush /\ PushAddr = PORT)) =>
         (ret' = "true" /\ ram' = ram /\ word_at(ram', PORT) = word_at(ram, PORT))]_vars

\* A PUSH of the non-zero r1 with the stack pointer at 0xFF03 has been
\* executed: the stack pointer is 0xFF01 and the word there is not r1.
C3_Witness ==
    /\ program \in PushPopPrograms
    /\ ret = "true"
    /\ ip(regfile) = 14
    /\ regfile[STACK_POINTER] = PORT
    /\ regfile[1] # 0
    /\ Nibble(read_16(ram, 12), 0) = 1
    /\ word_at(ram, PORT) = 0

\* The parts of a PushPop program, read back from the loaded image: the
\* number of pushes, the preset stack pointer and value, the operand registers
\* and the value the i-th push stores (r1 = V, r2 = V + 1, r15 = the stack
\* pointer before that push).
PushCount == (Len(program) - 12) \div 4
PresetSP == program[3] * 256 + program[4]
PresetValue == program[7] * 256 + program[8]
PushReg(i) == program[12 + 2 * i] % 16
PopReg(k) == program[12 + 2 * PushCount + 2 * k] % 16
Pushed(i) ==
    CASE PushReg(i) = 1 -> PresetValue
      [] PushReg(i) = 2 -> wrapping_add(PresetValue, 1)
      [] OTHER -> wrapping_sub(PresetSP, 2 * (i - 1))
AfterPop(k) == ret = "true" /\ ip(regfile) = 12 + 2 * PushCount + 2 * k

(* C4.  Stack discipline: N PUSH instructions followed by N POP             *)
(* instructions, from any stack pointer and with any operand registers,     *)
(* all execute, the k-th pop delivers the value of the (N-k+1)-th push, and *)
(* the stack pointer ends where it started.                                 *)
C4_StackDiscipline ==
    program \in PushPopPrograms =>
      /\ ret \notin {"todo", "oob"}
      /\ \A k \in 1..PushCount :
            AfterPop(k) => regfile[PopReg(k)] = Pushed(PushCount - k + 1)
      /\ AfterPop(PushCount) => regfile[STACK_POINTER] = PresetSP

(* C10.  The stack program of the tests (r1 <- 255, three pushes of r1,     *)
(* pops into r2, r3, r4, r5), run from a new machine, halts with            *)
(* r1 = r2 = r3 = r4 = 255, r5 # 255 and the stack pointer equal to 2.      *)
C10_StackProgram ==
    (loads = 1 /\ program = stack_program /\ ret = "false") =>
      /\ regfile[1] = 255 /\ regfile[2] = 255
      /\ regfile[3] = 255 /\ regfile[4] = 255
      /\ regfile[5] # 255
      /\ regfile[5] = read_16(load_bytes(ram_zero, stack_program), 0)
      /\ regfile[STACK_POINTER] = 2

\* The stack program has halted, after its four pops.
C10_Witness ==
    /\ program = stack_program
    /\ ret = "false"
    /\ ip(regfile) = 16
    /\ regfile[4] = 255

----------------------------------------------------------------------------
(* Properties of the ALU-backed instructions. *)

Is2op == Fetches /\ Nibble(Word, 3) = 0 /\ Word \div 256 # 0
Is2opImm == Fetches /\ Nibble(Word, 3) = 2
AluStep == Is2op \/ Is2opImm
AluOp == Nibble(Word, 2)
AluRd == Nibble(Word, 1)
AluA == regfile[AluRd]
AluB == IF Nibble(Word, 3) = 2 THEN Nibble(Word, 0) ELSE regfile[Nibble(Word, 0)]
Carry(f) == (f \div 2) % 2 = 1

\* In an ALU program: the instruction at 12 has just been executed.
AfterAluInstruction(op) ==
    /\ program \in AluPrograms
    /\ ret = "true"
    /\ ip(regfile) = 14
    /\ Nibble(read_16(ram, 12), 2) = op
PresetA == program[3] * 256 + program[4]
PresetFlags == program[10]

(* C5.  ADD returns (a + b) mod 2^16 with the carry bit set iff a + b >=    *)
(* 2^16; SUBTRACT returns (a - b) mod 2^16 with the carry bit set iff       *)
(* a < b; whatever the incoming flags.                                      *)
C5_AddSubCarry ==
    [][/\ (AluStep /\ AluOp = 1) =>
            /\ Carry(regfile'[FLAG_REGISTER]) <=> (AluA + AluB >= U16)
            /\ regfile'[AluRd] = (AluA + AluB) % U16
       /\ (AluStep /\ AluOp = 2) =>
            /\ Carry(regfile'[FLAG_REGISTER]) <=> (AluA < AluB)
            /\ regfile'[AluRd] = (AluA - AluB + U16) % U16]_vars

\* ADD r1, r2 of 0xFFFF + 1 has been executed: result 0, carry set.
C5_Witness ==
    /\ AfterAluInstruction(1)
    /\ read_16(ram, 12) = 256 + 16 + 2
    /\ PresetA = U16 - 1
    /\ regfile[2] = 1
    /\ regfile[1] = 0
    /\ Carry(flags(regfile))

(* C6.  COMPARE (op 11, register or immediate form) leaves the destination  *)
(* register as it was and sets the flags register to the flags SUBTRACT     *)
(* returns for the same operands.                                           *)
C6_CompareIsSubtractFlags ==
    [][(AluStep /\ AluOp = 11) =>
         /\ regfile'[AluRd] = AluA
         /\ regfile'[FLAG_REGISTER] = alu(2, AluA, AluB, flags(regfile))[2]
         /\ regfile'[FLAG_REGISTER] =
              alu_flags((AluA - AluB + U16) % U16, AluA < AluB)]_vars

\* CMP r1, r2 with r1 < r2 has been executed: r1 kept, carry set.
C6_Witness ==
    /\ AfterAluInstruction(11)
    /\ read_16(ram, 12) = 11 * 256 + 16 + 2
    /\ regfile[1] = PresetA
    /\ regfile[1] < regfile[2]
    /\ regfile[1] # 0
    /\ Carry(flags(regfile))

(* C7.  A 2-operand instruction whose operation code is outside 1..11 does  *)
(* not fail: step() returns true, the destination register becomes 0, the   *)
(* flags register becomes exactly 0x0040 and the instruction pointer        *)
(* advances by 2.                                                           *)
C7_AluErrorIsSoft ==
    [][(AluStep /\ AluOp \notin 1..11) =>
         /\ ret' = "true"
         /\ regfile'[AluRd] = 0
         /\ regfile'[FLAG_REGISTER] = 64
         /\ ip(regfile') = (ip(regfile) + 2) % U16]_vars

\* An instruction with operation code 13 has been executed on a non-zero
\* destination with all the flags set before it.
C7_Witness ==
    /\ AfterAluInstruction(13)
    /\ PresetA # 0
    /\ PresetFlags = ZF + CF + OF + SF + EF
    /\ regfile[1] = 0
    /\ flags(regfile) = EF

----------------------------------------------------------------------------
(* C8.  step() fails as an unsupported instruction exactly for a non-zero   *)
(* word with an unassigned top nibble, a 1-operand selector outside 1..6 or *)
(* an absolute jump's addressing mode outside 0..2, and it fails before any *)
(* register or memory byte is changed.                                      *)
C8_UnsupportedInstruction ==
    [][StepCalled =>
         /\ (ret' = "todo") <=> (Fetches /\ Word # 0 /\ Unsupported(Word))
         /\ (ret' = "todo") => (regfile' = regfile /\ ram' = ram)]_vars

\* An absolute jump with addressing mode 3 and condition 13 has failed,
\* with the instruction pointer still at it.
C8_Witness ==
    /\ program \in DecodePrograms
    /\ ret = "todo"
    /\ ip(regfile) = 14
    /\ read_16(ram, 14) = 4096 + 13 * 256 + 3
    /\ regfile[1] = 8192

----------------------------------------------------------------------------
(* C9.  run() on the Fibonacci program terminates for every preset r1 in    *)
(* 0..MaxFib, and with r1 preset to 11 it halts with r1 = 55.               *)
C9_FibonacciHalts ==
    /\ <>(ret = "false")
    /\ (ret = "none" /\ regfile[1] = 11) ~> (ret = "false" /\ regfile[1] = 55)

\* The run has halted with r1 = 55, taken from r2 at address 24.
C9_Witness ==
    /\ program = fib_program
    /\ ret = "false"
    /\ ip(regfile) = 26
    /\ regfile[1] = 55
    /\ regfile[2] = 55

----------------------------------------------------------------------------
IsJrel == Fetches /\ Nibble(Word, 3) = 3
JrelCond == Nibble(Word, 2)
\* The low byte of the word as a signed 8-bit number.
JrelOffset == IF Word % 256 >= 128 THEN (Word % 256) - 256 ELSE Word % 256
OtherRegistersKept(S) ==
    \A r \in 0..(REGISTER_COUNT - 1) : r \notin S => regfile'[r] = regfile[r]

(* C11.  A relative jump at ip = P with signed 8-bit offset s leaves        *)
(* ip = (P + 2) mod 2^16 when its condition is false and                    *)
(* ip = (P + 2 + s) mod 2^16 when it is true, and changes no other          *)
(* register; the jump program of the tests halts with r1 = 1 and r2 = 0.    *)
C11_RelativeJump ==
    /\ [][IsJrel =>
            /\ ret' = "true"
            /\ ip(regfile') =
                 IF should_jump(regfile, JrelCond)
                 THEN (ip(regfile) + 2 + JrelOffset + U16) % U16
                 ELSE (ip(regfile) + 2) % U16
            /\ OtherRegistersKept({INSTRUCTION_POINTER})]_vars
    /\ [](loads = 1 /\ program = jmp_program /\ ret = "false" =>
            regfile[1] = 1 /\ regfile[2] = 0)

\* A taken backward jump from P = 4 by -128 has wrapped below zero to 0xFF86.
C11_Witness ==
    /\ \E cond \in 0..15, f \in JumpFlags : program = JrelProgram(cond, 128, f)
    /\ ret = "true"
    /\ ip(regfile) = 65414

----------------------------------------------------------------------------
AluRs == Nibble(Word, 0)

(* C12.  A 2-operand register instruction sets rd to the ALU result of      *)
(* (op, old rd, old rs, old flags), sets the flags register to the flags    *)
(* the ALU returned, advances the instruction pointer by 2 and changes      *)
(* nothing else; the add program of the tests halts with r2 = 21.           *)
C12_TwoOperandRegister ==
    /\ [][Is2op =>
            LET r == alu(AluOp, regfile[AluRd], regfile[AluRs], flags(regfile)) IN
            /\ ret' = "true"
            /\ regfile'[AluRd] = r[1]
            /\ regfile'[FLAG_REGISTER] = r[2]
            /\ regfile'[INSTRUCTION_POINTER] = (ip(regfile) + 2) % U16
            /\ OtherRegistersKept({AluRd, FLAG_REGISTER, INSTRUCTION_POINTER})
            /\ ram' = ram]_vars
    /\ [](loads = 1 /\ program = add_program /\ ret = "false" =>
            regfile[2] = 21)

\* The add program has added r1 into r2 and halted.
C12_Witness ==
    /\ program = add_program
    /\ ret = "false"
    /\ regfile[1] = 10
    /\ regfile[2] = 21
    /\ ip(regfile) = 6

----------------------------------------------------------------------------
IsNegate == Fetches /\ Word \div 16 = 2

(* C13.  NEGATE replaces the value v of rd by its two's complement,         *)
(* (2^16 - v) mod 2^16, and advances the instruction pointer by 2.          *)
C13_NegateTwosComplement ==
    [][IsNegate =>
         /\ ret' = "true"
         /\ regfile'[Nibble(Word, 0)] = (U16 - regfile[Nibble(Word, 0)]) % U16
         /\ ip(regfile') = (ip(regfile) + 2) % U16]_vars

----------------------------------------------------------------------------
IsJabs == Fetches /\ Nibble(Word, 3) = 1 /\ Nibble(Word, 0) \in {0, 1, 2}
JabsCond == Nibble(Word, 2)
JabsMode == Nibble(Word, 0)
\* The target of the jump, read from the wrapping memory of the
\* specification.
JabsTarget ==
    CASE JabsMode = 0 -> regfile[Nibble(Word, 1)]
      [] JabsMode = 1 -> word_at(ram, regfile[Nibble(Word, 1)])
      [] JabsMode = 2 -> word_at(ram, ip(regfile) + 2)

(* C14.  A conditional absolute jump at P takes its target from rd          *)
(* (mode 0), from the memory word at the address in rd (mode 1) or from     *)
(* the word at P + 2 (mode 2); afterwards the instruction pointer is the    *)
(* target if the condition holds, else P + 2 (modes 0, 1) or P + 4          *)
(* (mode 2); no other register and no memory changes.                       *)
C14_AbsoluteJump ==
    [][IsJabs =>
         /\ ret' = "true"
         /\ ip(regfile') =
              IF should_jump(regfile, JabsCond) THEN JabsTarget
              ELSE (ip(regfile) + (IF JabsMode = 2 THEN 4 ELSE 2)) % U16
         /\ OtherRegistersKept({INSTRUCTION_POINTER})
         /\ ram' = ram]_vars

----------------------------------------------------------------------------
FlagBit(f, k) == (f \div (2 ^ k)) % 2 = 1

\* The condition table of the specification, on the bits of a flags value:
\* bit 0 zero, bit 1 carry, bit 2 overflow, bit 3 sign.
ConditionTable(cond, f) ==
    LET Z == FlagBit(f, 0)
        C == FlagBit(f, 1)
        O == FlagBit(f, 2)
        S == FlagBit(f, 3)
    IN  CASE cond = 1 -> ~Z /\ ~C
          [] cond = 2 -> ~C
          [] cond = 3 -> C
          [] cond = 4 -> C \/ Z
          [] cond = 5 -> ~Z /\ (S <=> O)
          [] cond = 6 -> S <=> O
          [] cond = 7 -> ~(S <=> O)
          [] cond = 8 -> ~Z \/ ~(S <=> Z)
          [] cond = 9 -> Z
          [] cond = 10 -> ~Z
          [] cond = 11 -> O
          [] cond = 12 -> ~O
          [] cond = 13 -> TRUE
          [] cond \in {0, 14, 15} -> FALSE

JabsFallThrough == (ip(regfile) + (IF JabsMode = 2 THEN 4 ELSE 2)) % U16

(* C15.  For every condition code 0..15 and every value of the flags        *)
(* register a conditional jump, relative or absolute, is taken exactly      *)
(* when the condition table says so.  A jump whose target is the next       *)
(* instruction shows nothing and is left out.                               *)
C15_ConditionTable ==
    [][/\ (IsJrel /\ JrelOffset # 0) =>
             ((ip(regfile') # (ip(regfile) + 2) % U16)
                 <=> ConditionTable(JrelCond, flags(regfile)))
       /\ (IsJabs /\ ret' = "true" /\ JabsTarget # JabsFallThrough) =>
             ((ip(regfile') = JabsTarget)
                 <=> ConditionTable(JabsCond, flags(regfile)))]_vars

\* A less-or-equal jump (code 8) with the zero and the sign bit both set was
\* not taken.
C15_Witness ==
    /\ program = JrelProgram(8, 2, ZF + SF)
    /\ ret = "true"
    /\ flags(regfile) = ZF + SF
    /\ ip(regfile) = 6

----------------------------------------------------------------------------
LoadAddr == wrapping_add(regfile[Nibble(Word, 1)], regfile[Nibble(Word, 0)])

(* C16.  Address arithmetic wraps modulo 65,536 without failure: no step    *)
(* fails on an address, an indexed load at 0xFFFF returns the word whose    *)
(* low byte is at 0x0000, and an indexed store at 0xFFFF puts the low byte  *)
(* of its value at 0x0000.                                                  *)
C16_AddressWrap ==
    [][StepCalled =>
         /\ ret' # "oob"
         /\ (IsLoad /\ LoadAddr = U16 - 1) =>
               regfile'[Nibble(Word, 2)] = word_at(ram, U16 - 1)
         /\ (IsStore /\ StoreAddr = U16 - 1) =>
               /\ ram_at(ram', U16 - 1) = StoreVal \div 256
               /\ ram_at(ram', 0) = StoreVal % 256]_vars

----------------------------------------------------------------------------
\* The incoming carry bit of the step, as a number.
CarryIn == IF Carry(flags(regfile)) THEN 1 ELSE 0

\* The raw result of operation op on the operands of the step.  For the
\* bitwise operations it is the value the step leaves in rd.
RawResult(op) ==
    CASE op = 1 -> (AluA + AluB) % U16
      [] op \in {2, 11} -> (AluA - AluB + U16) % U16
      [] op = 9 -> (((AluA + CarryIn) % U16) + AluB) % U16
      [] op = 10 -> (((AluA - CarryIn + U16) % U16) - AluB + U16) % U16
      [] op \in 3..8 -> regfile'[AluRd]

\* The carry or borrow out of operation op on the operands of the step.
RawCarry(op) ==
    CASE op = 1 -> AluA + AluB >= U16
      [] op \in {2, 11} -> AluA < AluB
      [] op = 9 -> ((AluA + CarryIn) % U16) + AluB >= U16
      [] op = 10 -> ((AluA - CarryIn + U16) % U16) < AluB
      [] op \in 3..8 -> FALSE

\* The uniform flag rule: the flags value that has exactly the bits the
\* rule sets.
FlagRule(c, k) ==
    (IF c = 0 THEN ZF ELSE 0) + (IF k THEN CF ELSE 0)
      + (IF ~k /\ c >= 32768 THEN OF ELSE 0) + (IF c >= 32768 THEN SF ELSE 0)

(* C17.  For every operation code 1..11 the flags the ALU returns are       *)
(* computed wholesale from the raw result c and the carry out cf: zero bit  *)
(* iff c = 0, carry bit = cf, overflow bit iff cf is false and bit 15 of c  *)
(* is set, sign bit iff bit 15 of c is set, every other bit clear; the six  *)
(* bitwise operations never set the carry bit.                              *)
C17_FlagsWholesale ==
    [][(AluStep /\ AluOp \in 1..11) =>
         /\ regfile'[FLAG_REGISTER] = FlagRule(RawResult(AluOp), RawCarry(AluOp))
         /\ AluOp \in 3..8 => ~Carry(regfile'[FLAG_REGISTER])]_vars

\* OR r1, r2 has been executed with every flag preset and has left a
\* result with bit 15 set: the flags are overflow and sign only.
C17_Witness ==
    /\ AfterAluInstruction(3)
    /\ PresetFlags = ZF + CF + OF + SF + EF
    /\ regfile[1] >= 32768
    /\ flags(regfile) = OF + SF

(* C18.  ADD-WITH-CARRY computes a' = (a + cin) mod 2^16, then              *)
(* (a' + b) mod 2^16 with the carry flag set iff a' + b >= 2^16;            *)
(* SUBTRACT-WITH-BORROW computes a' = (a - cin) mod 2^16, then              *)
(* (a' - b) mod 2^16 with the carry flag set iff a' < b; the other flags    *)
(* follow the flag rule on that result.  ADC(0xFFFE, 1, carry) is           *)
(* (0, CF + ZF) and SBB(0x8001, 1, carry) is (0x7FFF, 0).                   *)
C18_CarryChain ==
    /\ [][/\ (AluStep /\ AluOp = 9) =>
               LET a1 == (AluA + CarryIn) % U16 IN
               /\ regfile'[AluRd] = (a1 + AluB) % U16
               /\ Carry(regfile'[FLAG_REGISTER]) <=> (a1 + AluB >= U16)
               /\ regfile'[FLAG_REGISTER] =
                    FlagRule((a1 + AluB) % U16, a1 + AluB >= U16)
          /\ (AluStep /\ AluOp = 10) =>
               LET a1 == (AluA - CarryIn + U16) % U16 IN
               /\ regfile'[AluRd] = (a1 - AluB + U16) % U16
               /\ Carry(regfile'[FLAG_REGISTER]) <=> (a1 < AluB)
               /\ regfile'[FLAG_REGISTER] =
                    FlagRule((a1 - AluB + U16) % U16, a1 < AluB)
          /\ (AluStep /\ AluOp = 9 /\ AluA = 65534 /\ AluB = 1 /\ CarryIn = 1) =>
               regfile'[AluRd] = 0 /\ regfile'[FLAG_REGISTER] = CF + ZF
          /\ (AluStep /\ AluOp = 10 /\ AluA = 32769 /\ AluB = 1 /\ CarryIn = 1) =>
               regfile'[AluRd] = 32767 /\ regfile'[FLAG_REGISTER] = 0]_vars

\* ADC r1, r2 of 0xFFFF + 1 with the carry set has been executed: the carry
\* out of 0xFFFF + 1 (the carry-in) is lost, the result is 1 with no flag.
C18_Witness ==
    /\ AfterAluInstruction(9)
    /\ read_16(ram, 12) = 9 * 256 + 16 + 2
    /\ PresetA = U16 - 1
    /\ PresetFlags = CF
    /\ regfile[2] = 1
    /\ regfile[1] = 1
    /\ flags(regfile) = 0

----------------------------------------------------------------------------
\* The flags the ALU returns for the operands of the step.
AluFlagsOut == alu(AluOp, AluA, AluB, flags(regfile))[2]

IsMovExt == Fetches /\ Nibble(Word, 3) = 11
MovExtDest == Nibble(Word, 2) + 16 * ((Word \div 4) % 4)
MovExtSrc == Nibble(Word, 1) + 16 * (Word % 4)
IsMovToFlags == IsMovExt /\ MovExtDest = FLAG_REGISTER

(* C19.  No instruction touches the flags register directly: in every step  *)
(* the flags register changes only as the flag output of a 2-operand        *)
(* register or 2-operand immediate instruction, and a step that executes    *)
(* an instruction of any other class leaves it unchanged.                   *)
C19_FlagsOnlyByAlu ==
    [][StepCalled =>
         /\ AluStep => regfile'[FLAG_REGISTER] = AluFlagsOut
         /\ ~AluStep => regfile'[FLAG_REGISTER] = regfile[FLAG_REGISTER]]_vars

(* C19, amended.  The flags register changes only as the flag output of a   *)
(* 2-operand register or 2-operand immediate instruction, or as the         *)
(* destination of an extended move whose effective destination index is 17  *)
(* (rd = 1, bank-dest = 1), which copies its source register into it; a     *)
(* step that executes any other instruction leaves it unchanged.            *)
C19_FlagsByAluOrExtendedMove ==
    [][StepCalled =>
         /\ AluStep => regfile'[FLAG_REGISTER] = AluFlagsOut
         /\ IsMovToFlags => regfile'[FLAG_REGISTER] = regfile[MovExtSrc]
         /\ (~AluStep /\ ~IsMovToFlags) =>
               regfile'[FLAG_REGISTER] = regfile[FLAG_REGISTER]]_vars

\* The extended move of the preamble has copied r3 = ZF + CF + OF + SF into
\* the flags register.
C19_Witness ==
    /\ program \in DecodePrograms
    /\ ret = "true"
    /\ ip(regfile) = 14
    /\ regfile[3] = ZF + CF + OF + SF
    /\ flags(regfile) = ZF + CF + OF + SF

----------------------------------------------------------------------------
(* C20.  Whenever the flags register holds its initial value 0 or a value   *)
(* the ALU produced (any operation code, the ALU error included),           *)
(* condition code 8 evaluates true, and a conditional jump with cond = 8    *)
(* that follows an ALU instruction is taken: the ALU never sets the zero    *)
(* and the sign bit together.                                               *)
C20_LessOrEqualAfterAlu ==
    /\ [][/\ AluStep =>
               /\ should_jump(regfile', 8)
               /\ ~(FlagBit(flags(regfile'), 0) /\ FlagBit(flags(regfile'), 3))
          /\ (IsJrel /\ JrelCond = 8) =>
               ip(regfile') = (ip(regfile) + 2 + JrelOffset + U16) % U16]_vars
    /\ [](loads = 0 => flags(regfile) = 0 /\ should_jump(regfile, 8))

\* With every flag preset, an ALU instruction has left a zero result and
\* the zero flag alone, and the less-or-equal jump at 14 has been taken to 18.
C20_Witness ==
    /\ program \in AluPrograms
    /\ ret = "true"
    /\ ip(regfile) = 18
    /\ PresetFlags = ZF + CF + OF + SF + EF
    /\ regfile[1] = 0
    /\ flags(regfile) = ZF

=============================================================================
